---- MODULE Spec2Model ----
(***************************************************************************)
(* A model of the article extractor: wechat_extract.py (the pipeline       *)
(* fetch -> extract -> save, with optional image download) and app.py      *)
(* (the batch runner of the web front end).                                *)
(*                                                                         *)
(* Text is modelled as a sequence of one-character strings, so that the    *)
(* string functions of the code (strip, re.sub, slicing, splitext) are     *)
(* computed on characters as the code computes them.                       *)
(***************************************************************************)
EXTENDS Integers, Sequences, FiniteSets, TLC

VARIABLES
    \* safe_filename, applied to one input
    nameIn, nameOut, namePc,
    \* the title part of extract_article, applied to one document
    doc, title, titlePc,
    \* the author/date part of extract_article, applied to one document
    meta_zone, author, date, metaPc,
    \* one batch run: the caller's inputs, the remote site, the worker pool,
    \* the output directory and the collected results
    entry, urls, fmt, download_images, workers, web,
    phase, task, results, fs

nameVars == <<nameIn, nameOut, namePc>>
titleVars == <<doc, title, titlePc>>
metaVars == <<meta_zone, author, date, metaPc>>
inputVars == <<entry, urls, fmt, download_images, workers, web>>
runVars == <<inputVars, phase, task, results, fs>>

\* Python's None where a text may stand: a value no text equals
None == <<"None">>

----------------------------------------------------------------------------
(* Characters *)

\* the characters of the class [\\/:*?"<>|] of safe_filename
HostileChars == {"\\", "/", ":", "*", "?", "\"", "<", ">", "|"}

\* the characters str.strip() removes and \s matches
SpaceChars == {" ", "\t", "\n"}

Min(S) == CHOOSE x \in S : \A y \in S : x <= y
Max(S) == CHOOSE x \in S : \A y \in S : y <= x

\* str.lstrip / str.rstrip / str.strip
LStrip(s) ==
    LET idx == {i \in 1..Len(s) : s[i] \notin SpaceChars}
    IN  IF idx = {} THEN <<>> ELSE SubSeq(s, Min(idx), Len(s))

RStrip(s) ==
    LET idx == {i \in 1..Len(s) : s[i] \notin SpaceChars}
    IN  IF idx = {} THEN <<>> ELSE SubSeq(s, 1, Max(idx))

Strip(s) == LStrip(RStrip(s))

\* re.sub(r"[C]+", rep, s): every maximal run of characters of C becomes rep
SubRuns(s, C, rep) ==
    LET paired == [i \in 1..Len(s) |->
                     <<s[i], IF i > 1 THEN s[i-1] \in C ELSE FALSE>>]
        Starts(p) == ~(p[1] \in C /\ p[2])
        kept == SelectSeq(paired, Starts)
    IN  [i \in 1..Len(kept) |-> IF kept[i][1] \in C THEN rep ELSE kept[i][1]]

\* the cap of safe_filename
MaxNameLen == 120

\* the generic name of safe_filename
GenericName == <<"w","e","c","h","a","t","_","a","r","t","i","c","l","e">>

\* safe_filename without the cap of lines 48-49
safe_filename_nocap(s) ==
    LET s1 == Strip(s)
        s2 == SubRuns(s1, HostileChars, "_")
        s3 == SubRuns(s2, SpaceChars, " ")
    IN  IF s3 = <<>> THEN GenericName ELSE s3

\* safe_filename(s)
safe_filename(s) ==
    LET s1 == Strip(s)
        s2 == SubRuns(s1, HostileChars, "_")
        s3 == SubRuns(s2, SpaceChars, " ")
        s4 == IF Len(s3) > MaxNameLen THEN RStrip(SubSeq(s3, 1, MaxNameLen)) ELSE s3
    IN  IF s4 = <<>> THEN GenericName ELSE s4

----------------------------------------------------------------------------
(* safe_filename on bounded inputs: a short head, a run of one character    *)
(* long enough to cross the cap, a short tail.                              *)

MaxAffix == 2

NameChars == {"a", " ", "\t", "/"}

PadChars == {"a", " ", "/"}

PadLens == {0, 1} \cup ((MaxNameLen - 3) .. (MaxNameLen + 1))

SeqsUpTo(S, n) == UNION {[1..k -> S] : k \in 0..n}

Repeat(c, n) == [i \in 1..n |-> c]

NameInit ==
    /\ \E h \in SeqsUpTo(NameChars, MaxAffix), t \in SeqsUpTo(NameChars, MaxAffix),
          c \in PadChars, n \in PadLens :
          nameIn = h \o Repeat(c, n) \o t
    /\ nameOut = None
    /\ namePc = "input"

Sanitize ==
    /\ namePc = "input"
    /\ nameOut' = safe_filename(nameIn)
    /\ namePc' = "done"
    /\ UNCHANGED <<nameIn, titleVars, metaVars, runVars>>

NameIdle == nameIn = <<>> /\ nameOut = None /\ namePc = "idle"

----------------------------------------------------------------------------
(* extract_article: the title *)

\* A parsed document, as far as the title is concerned:
\*   h2      text of the first <h2> whose class matches rich_media_title
\*           (None: no such element)
\*   ogProp  the first <meta property="og:title">: Absent, or its content
\*           attribute (None: the element has no content attribute)
\*   ogName  the first <meta name="og:title">, likewise
\*   ttl     soup.title.string (None: no <title>, or no single string in it)
Absent == <<"Absent">>

\* Tag.get_text(strip=True) of an element holding one string
get_text(txt) == Strip(txt)

\* truthiness of a str-or-None value
Truthy(v) == v /= None /\ v /= Absent /\ v /= <<>>

\* the title with og:title tried before the heading
ExtractTitle_ogFirst(d) ==
    LET meta_title == IF d.ogProp /= Absent THEN d.ogProp ELSE d.ogName
        t1 == IF Truthy(meta_title) THEN Strip(meta_title) ELSE <<>>
        t2 == IF t1 /= <<>> THEN t1
              ELSE IF d.h2 /= None /\ Truthy(get_text(d.h2)) THEN get_text(d.h2) ELSE t1
        t3 == IF t2 /= <<>> THEN t2
              ELSE IF Truthy(d.ttl) THEN Strip(d.ttl) ELSE t2
    IN  t3

\* lines 64-76
ExtractTitle(d) ==
    LET t1 == IF d.h2 /= None /\ Truthy(get_text(d.h2)) THEN get_text(d.h2) ELSE <<>>
        meta_title == IF d.ogProp /= Absent THEN d.ogProp ELSE d.ogName
        t2 == IF t1 /= <<>> THEN t1
              ELSE IF Truthy(meta_title) THEN Strip(meta_title) ELSE t1
        t3 == IF t2 /= <<>> THEN t2
              ELSE IF Truthy(d.ttl) THEN Strip(d.ttl) ELSE t2
    IN  t3

MaxTitleLen == 2

TitleChars == {" ", "x", "y"}

TitleTexts == SeqsUpTo(TitleChars, MaxTitleLen)

TitleInit ==
    /\ doc \in [h2 : {None} \cup TitleTexts,
                 ogProp : {Absent, None} \cup TitleTexts,
                 ogName : {Absent, <<"y">>},
                 ttl : {None} \cup TitleTexts]
    /\ title = None
    /\ titlePc = "input"

DoExtractTitle ==
    /\ titlePc = "input"
    /\ title' = ExtractTitle(doc)
    /\ titlePc' = "done"
    /\ UNCHANGED <<doc, nameVars, metaVars, runVars>>

TitleIdle ==
    /\ doc = [h2 |-> None, ogProp |-> Absent, ogName |-> Absent, ttl |-> None]
    /\ title = None
    /\ titlePc = "idle"

----------------------------------------------------------------------------
(* extract_article: author and date *)

\* the characters U+5E74 (year) and U+6708 (month), each one element of a text
Nian == "U+5E74"
Yue == "U+6708"

Digits == {"0", "1", "2", "3", "4", "5", "6", "7", "8", "9"}

AllIn(s, from, to, C) == \A k \in from..to : s[k] \in C

\* re.search(r"\d{4}[-/]\d{1,2}[-/]\d{1,2}", txt)
SearchYmd(txt) ==
    \E i \in 1..Len(txt) : \E m \in 1..2 :
        /\ i + 4 + m + 1 <= Len(txt)
        /\ AllIn(txt, i, i + 3, Digits)
        /\ txt[i + 4] \in {"-", "/"}
        /\ AllIn(txt, i + 5, i + 4 + m, Digits)
        /\ txt[i + 5 + m] \in {"-", "/"}
        /\ txt[i + 6 + m] \in Digits

\* re.search(r"\d{4}<U+5E74>\d{1,2}<U+6708>", txt)
SearchYearMonth(txt) ==
    \E i \in 1..Len(txt) : \E m \in 1..2 :
        /\ i + 4 + m + 1 <= Len(txt)
        /\ AllIn(txt, i, i + 3, Digits)
        /\ txt[i + 4] = Nian
        /\ AllIn(txt, i + 5, i + 4 + m, Digits)
        /\ txt[i + 5 + m] = Yue

\* line 100
IsDateLike(txt) == SearchYmd(txt) \/ SearchYearMonth(txt)

\* class_=re.compile(...) of lines 85 and 89, on one class name
AuthorClasses == {"rich_media_meta_text", "rich_media_meta_nickname", "nickname"}
DateClasses == {"rich_media_meta_text", "rich_media_meta_time", "js_date"}

\* Tag.find(class_=...): the text of the first descendant whose class
\* matches, or None
FindClass(zone, classes) ==
    LET idx == {i \in 1..Len(zone) : zone[i].cls \in classes}
    IN  IF idx = {} THEN None ELSE zone[Min(idx)].txt

\* lines 95-105: the loop over the <span> and <a> descendants
RECURSIVE SpanLoop(_, _)
SpanLoop(spans, slots) ==
    IF spans = <<>> THEN slots
    ELSE LET txt == get_text(Head(spans).txt)
             next == IF txt = <<>> THEN slots
                     ELSE IF IsDateLike(txt)
                          THEN (IF slots.date = <<>> THEN [slots EXCEPT !.date = txt] ELSE slots)
                          ELSE (IF slots.author = <<>> THEN [slots EXCEPT !.author = txt] ELSE slots)
         IN  SpanLoop(Tail(spans), next)

IsSpanOrA(e) == e.tag \in {"span", "a"}

\* lines 79-105; zone.found: an element matches line 82; zone.elems: its
\* descendants in document order
ExtractMeta(zone) ==
    IF ~zone.found THEN [author |-> <<>>, date |-> <<>>]
    ELSE LET author_tag == FindClass(zone.elems, AuthorClasses)
             a0 == IF author_tag /= None /\ Truthy(get_text(author_tag))
                   THEN get_text(author_tag) ELSE <<>>
             date_tag == FindClass(zone.elems, DateClasses)
             d0 == IF date_tag /= None /\ Truthy(get_text(date_tag))
                   THEN get_text(date_tag) ELSE <<>>
             s0 == [author |-> a0, date |-> d0]
         IN  IF a0 = <<>> \/ d0 = <<>>
             THEN SpanLoop(SelectSeq(zone.elems, IsSpanOrA), s0)
             ELSE s0

MaxZoneLen == 2

SampleTexts ==
    { <<>>, <<" ">>, <<"B", "o", "b">>,
      <<"2", "0", "2", "4", "-", "0", "1", "-", "0", "2">>,
      <<" ", "2", "0", "2", "4", "/", "1", "/", "2">>,
      <<"2", "0", "2", "4", Nian, "1", Yue>>,
      <<"2", "4", "-", "1", "-", "2">> }

ZoneElements ==
    [tag : {"span", "em"},
     cls : {"", "rich_media_meta_text", "rich_media_meta_nickname", "rich_media_meta_time"},
     txt : SampleTexts]

MetaInit ==
    /\ meta_zone \in {[found |-> FALSE, elems |-> <<>>]}
                     \cup [found : {TRUE}, elems : SeqsUpTo(ZoneElements, MaxZoneLen)]
    /\ author = None
    /\ date = None
    /\ metaPc = "input"

DoExtractMeta ==
    /\ metaPc = "input"
    /\ author' = ExtractMeta(meta_zone).author
    /\ date' = ExtractMeta(meta_zone).date
    /\ metaPc' = "done"
    /\ UNCHANGED <<meta_zone, nameVars, titleVars, runVars>>

MetaIdle ==
    /\ meta_zone = [found |-> FALSE, elems |-> <<>>]
    /\ author = None
    /\ date = None
    /\ metaPc = "idle"

----------------------------------------------------------------------------
(* File names and paths *)

\* str(i) for i >= 0
DigitChar(d) == <<"0", "1", "2", "3", "4", "5", "6", "7", "8", "9">>[d + 1]

RECURSIVE IntToChars(_)
IntToChars(n) == IF n < 10 THEN <<DigitChar(n)>>
                 ELSE IntToChars(n \div 10) \o <<DigitChar(n % 10)>>

\* os.path.splitext on a file name: the extension starts at the last dot,
\* unless only dots precede it
splitext(name) ==
    LET dots == {i \in 1..Len(name) : name[i] = "."}
        last == IF dots = {} THEN 0 ELSE Max(dots)
    IN  IF last = 0 \/ (\A j \in 1..(last - 1) : name[j] = ".")
        THEN <<name, <<>>>>
        ELSE <<SubSeq(name, 1, last - 1), SubSeq(name, last, Len(name))>>

\* a path below the output directory: dir is "" (the directory itself) or
\* "images" (os.path.join(outdir, "images"))
Path(dir, name) == [dir |-> dir, name |-> name]

\* os.path.exists
exists(files, path) == path \in DOMAIN files

\* lines 173-177: the first of outpath, base_1.ext, base_2.ext, ... that does
\* not exist
FreePath(files, dir, filename) ==
    LET base == splitext(filename)[1]
        ext == splitext(filename)[2]
        Candidate(i) == IF i = 0 THEN Path(dir, filename)
                        ELSE Path(dir, base \o <<"_">> \o IntToChars(i) \o ext)
        free == {i \in 0..Cardinality(DOMAIN files) : ~exists(files, Candidate(i))}
    IN  Candidate(Min(free))

\* lines 158-170: the file name download_image derives for an image URL
ImageFileName(name, ctype) ==
    LET f0 == IF name = <<>> THEN <<"i", "m", "a", "g", "e">> ELSE name
        f1 == IF splitext(f0)[2] /= <<>> THEN f0
              ELSE IF ctype = "image/jpeg" THEN f0 \o <<".", "j", "p", "g">>
              ELSE IF ctype = "image/png" THEN f0 \o <<".", "p", "n", "g">>
              ELSE IF ctype = "image/gif" THEN f0 \o <<".", "g", "i", "f">>
              ELSE f0
    IN  safe_filename(f1)

\* lines 218-252: the extension of each supported format
SupportedFormats == {"md", "html", "json"}

FormatExt(f) == IF f = "md" THEN <<".", "m", "d">>
                ELSE IF f = "html" THEN <<".", "h", "t", "m", "l">>
                ELSE <<".", "j", "s", "o", "n">>

\* lines 189-190 and 219/230/247: the path save_article writes the article to
ArticlePath(item, f) ==
    LET t == IF item.title = <<>> THEN GenericName ELSE item.title
    IN  Path("", safe_filename(t) \o FormatExt(f))

\* app.py line 101
SummaryPath == Path("", <<"r", "e", "s", "u", "l", "t", "s", ".", "j", "s", "o", "n">>)

----------------------------------------------------------------------------
(* The remote site *)

\* Image URLs, and what the site serves for each: the last segment of the
\* URL's path, the status of the GET ("cut": the body breaks off while it is
\* read) and the Content-Type. NoUrl stands for a missing attribute.
NoUrl == ""
ImgA == "http://h1/a.png"
ImgA2 == "http://h2/a.png"
ImgNoExt == "http://h1/"
ImgBad == "http://h1/b.png"
ImgCut == "http://h1/c.png"

\* os.path.basename(urlparse(url).path)
UrlBasename(u) ==
    IF u \in {ImgA, ImgA2} THEN <<"a", ".", "p", "n", "g">>
    ELSE IF u = ImgBad THEN <<"b", ".", "p", "n", "g">>
    ELSE IF u = ImgCut THEN <<"c", ".", "p", "n", "g">>
    ELSE <<>>

\* SESSION.get(url, stream=True): status and Content-Type
ImgStatus(u) == IF u = ImgBad THEN "404" ELSE IF u = ImgCut THEN "cut" ELSE "ok"
ImgCtype(u) == IF u = ImgNoExt THEN "image/jpeg" ELSE "image/png"

\* An <img> element of the content region: its three source attributes
\* (NoUrl: the attribute is missing). Once save_article has replaced the src
\* by a local path, local holds that path and src the URL it stood for.
ImgElem(dsrc, dorig, src) == [dsrc |-> dsrc, dorig |-> dorig, src |-> src, local |-> <<>>]

NoZone == [found |-> FALSE, elems |-> <<>>]

\* The responses of the site to the GET of an article URL, by name
Responses == {"NotFound", "PageT1", "PageT2", "PageNoTitle"}

NotFound == [status |-> "404",
             doc |-> [h2 |-> None, ogProp |-> Absent, ogName |-> Absent, ttl |-> None],
             zone |-> NoZone, imgs |-> <<>>]
PageT1 == [status |-> "ok",
           doc |-> [h2 |-> <<" ", "t">>, ogProp |-> <<"o">>, ogName |-> Absent, ttl |-> <<"x">>],
           zone |-> [found |-> TRUE,
                     elems |-> <<[tag |-> "span", cls |-> "rich_media_meta_nickname", txt |-> <<"B", "o", "b">>]>>],
           imgs |-> <<ImgElem(ImgA, NoUrl, NoUrl), ImgElem(ImgCut, NoUrl, NoUrl)>>]
PageT2 == [status |-> "ok",
           doc |-> [h2 |-> None, ogProp |-> <<"t">>, ogName |-> Absent, ttl |-> <<"x">>],
           zone |-> NoZone,
           imgs |-> <<ImgElem(NoUrl, NoUrl, ImgBad), ImgElem(NoUrl, ImgA2, ImgBad)>>]
PageNoTitle == [status |-> "ok",
                doc |-> [h2 |-> None, ogProp |-> Absent, ogName |-> Absent, ttl |-> None],
                zone |-> NoZone,
                imgs |-> <<ImgElem(NoUrl, NoUrl, NoUrl), ImgElem(NoUrl, NoUrl, ImgNoExt)>>]

\* fetch_url: the response the site gives for an article URL
Response(name) == IF name = "PageT1" THEN PageT1
                  ELSE IF name = "PageT2" THEN PageT2
                  ELSE IF name = "PageNoTitle" THEN PageNoTitle
                  ELSE NotFound

ArticleUrls == {"u1", "u2"}

----------------------------------------------------------------------------
(* extract_article: the content region and the whole article *)

\* line 123
ImgRef(e) == IF e.dsrc /= NoUrl THEN e.dsrc
             ELSE IF e.dorig /= NoUrl THEN e.dorig
             ELSE e.src

HasRef(e) == ImgRef(e) /= NoUrl

\* lines 122-130: every <img> with a reference gets it as its src; the
\* references are absolute URLs, which urljoin returns unchanged
NormalizeImgs(imgs) ==
    [i \in 1..Len(imgs) |-> IF HasRef(imgs[i]) THEN [imgs[i] EXCEPT !.src = ImgRef(imgs[i])]
                            ELSE imgs[i]]

ImageList(imgs) ==
    LET withRef == SelectSeq(imgs, HasRef)
    IN  [i \in 1..Len(withRef) |-> ImgRef(withRef[i])]

\* lines 60-149
extract_article(page, url) ==
    [url |-> url,
     title |-> ExtractTitle(page.doc),
     author |-> ExtractMeta(page.zone).author,
     date |-> ExtractMeta(page.zone).date,
     content |-> NormalizeImgs(page.imgs),
     images |-> ImageList(page.imgs)]

NoItem == [url |-> "", title |-> <<>>, author |-> <<>>, date |-> <<>>,
           content |-> <<>>, images |-> <<>>]

----------------------------------------------------------------------------
(* One batch run *)

MaxUrls == 2

WorkerCounts == {0, 1, 8}

Tasks == 1..Len(urls)

\* app.py line 94 and wechat_extract.py line 320: max_workers of the pool
PoolSize == IF entry = "app" THEN Min({workers, Len(urls)}) ELSE workers

\* wechat_extract.py line 311: the loop without a pool
Sequential == entry = "cli" /\ (Len(urls) = 1 \/ workers <= 1)

NoPath == Path("", <<>>)
NoResult == [url |-> "", ok |-> FALSE, error |-> ""]

\* process_url line 260
TaskOk(url, path, item) == [url |-> url, ok |-> TRUE, path |-> path, title |-> item.title]

\* a failed result that drops the message of the exception
TaskFailed_noError(url, err) == [url |-> url, ok |-> FALSE]

\* process_url lines 261-262
TaskFailed(url, err) == [url |-> url, ok |-> FALSE, error |-> err]

QueuedTask == [pc |-> "queued", item |-> NoItem, k |-> 0, outpath |-> NoPath,
               res |-> NoResult]

\* The URLs are names the site gives meaning to (web): the first one
\* submitted is called u1.
RunInit ==
    /\ entry \in {"app", "cli"}
    /\ urls \in {us \in UNION {[1..n -> ArticleUrls] : n \in 1..MaxUrls} : us[1] = "u1"}
    /\ fmt \in IF entry = "cli" THEN SupportedFormats ELSE SupportedFormats \cup {"pdf"}
    /\ download_images \in BOOLEAN
    /\ workers \in WorkerCounts
    /\ web \in [ArticleUrls -> Responses]
    /\ phase = "start"
    /\ task = [i \in 1..Len(urls) |-> QueuedTask]
    /\ results = <<>>
    /\ fs = <<>>

\* the tasks a worker of the pool is running
Running == {i \in Tasks : task[i].pc \in {"image", "imagewrite", "write"}}

\* the first <img> at or after position k that has a src, or Len + 1
NextImg(content, k) ==
    LET idx == {j \in k..Len(content) : content[j].src /= NoUrl}
    IN  IF idx = {} THEN Len(content) + 1 ELSE Min(idx)

\* where save_article goes after the image at position k - 1
AfterImg(content, k) ==
    IF NextImg(content, k) > Len(content) THEN "write" ELSE "image"

\* app.py line 94 / wechat_extract.py lines 311, 320: the pool is built;
\* ThreadPoolExecutor raises ValueError when max_workers <= 0, which nothing
\* in run_tasks catches
StartPool ==
    /\ phase = "start"
    /\ phase' = IF ~Sequential /\ PoolSize <= 0 THEN "crashed" ELSE "running"
    /\ UNCHANGED <<inputVars, task, results, fs, nameVars, titleVars, metaVars>>

\* process_url lines 256-258 and save_article lines 189-199: a worker takes
\* the next submitted task, fetches and extracts
Fetch(i) ==
    /\ phase = "running"
    /\ task[i].pc = "queued"
    /\ \A j \in 1..(i - 1) : task[j].pc /= "queued"
    /\ IF Sequential THEN \A j \in 1..(i - 1) : task[j].pc = "collected"
       ELSE Cardinality(Running) < PoolSize
    /\ LET page == Response(web[urls[i]])
           item == extract_article(page, urls[i])
       IN  task' = [task EXCEPT ![i] =
             IF page.status /= "ok"
             THEN [@ EXCEPT !.pc = "finished",
                            !.res = TaskFailed(urls[i], page.status)]
             ELSE [@ EXCEPT !.item = item,
                            !.k = NextImg(item.content, 1),
                            !.pc = IF download_images /\ item.images /= <<>>
                                   THEN AfterImg(item.content, 1) ELSE "write"]]
    /\ UNCHANGED <<inputVars, phase, results, fs, nameVars, titleVars, metaVars>>

\* download_image without its try/except: the failure ends the task
DownloadFailed_raise(t) ==
    [t EXCEPT !.outpath = NoPath,
              !.pc = "finished",
              !.res = TaskFailed(t.item.url, "download failed")]

\* download_image lines 183-185 and save_article line 206: a failed download
\* returns "", and save_article leaves the src and goes on to the next <img>
DownloadFailed(t) ==
    [t EXCEPT !.outpath = NoPath,
              !.k = NextImg(t.item.content, t.k + 1),
              !.pc = AfterImg(t.item.content, t.k + 1)]

\* download_image lines 153-177: the GET and the choice of a free path
ImageGet(i) ==
    /\ phase = "running"
    /\ task[i].pc = "image"
    /\ LET t == task[i]
           img == t.item.content[t.k].src
       IN  task' = [task EXCEPT ![i] =
             IF ImgStatus(img) = "404"
             THEN DownloadFailed(t)
             ELSE [@ EXCEPT !.pc = "imagewrite",
                            !.outpath = FreePath(fs, "images",
                                                 ImageFileName(UrlBasename(img), ImgCtype(img)))]]
    /\ UNCHANGED <<inputVars, phase, results, fs, nameVars, titleVars, metaVars>>

\* what open(outpath, "wb") and the writes of lines 178-181 leave in the file
ImageFile(img) == [kind |-> "image", url |-> img, whole |-> ImgStatus(img) = "ok"]

\* save_article lines 208-209: os.path.relpath(local, outdir), with "/"
relpath(path) == IF path.dir = "" THEN path.name
                 ELSE <<"i", "m", "a", "g", "e", "s", "/">> \o path.name

\* download_image lines 178-185 and save_article lines 206-209: the file is
\* opened for writing (truncating it) and written; the src is replaced unless
\* the body broke off, in which case the partial file stays
ImageWrite(i) ==
    /\ phase = "running"
    /\ task[i].pc = "imagewrite"
    /\ LET t == task[i]
           img == t.item.content[t.k].src
       IN  /\ fs' = (t.outpath :> ImageFile(img)) @@ fs
           /\ task' = [task EXCEPT ![i] =
                IF ImgStatus(img) /= "ok"
                THEN DownloadFailed(t)
                ELSE [@ EXCEPT !.item.content[t.k].local = relpath(t.outpath),
                               !.outpath = NoPath,
                               !.k = NextImg(t.item.content, t.k + 1),
                               !.pc = AfterImg(t.item.content, t.k + 1)]]
    /\ UNCHANGED <<inputVars, phase, results, nameVars, titleVars, metaVars>>

\* save_article lines 218-252 and process_url lines 260-262
Write(i) ==
    /\ phase = "running"
    /\ task[i].pc = "write"
    /\ LET t == task[i]
           outpath == ArticlePath(t.item, fmt)
       IN  IF fmt \in SupportedFormats
           THEN /\ fs' = (outpath :> [kind |-> "article", fmt |-> fmt, item |-> t.item]) @@ fs
                /\ task' = [task EXCEPT ![i] =
                     [@ EXCEPT !.pc = "finished",
                               !.res = TaskOk(urls[i], outpath, t.item)]]
           ELSE /\ fs' = fs
                /\ task' = [task EXCEPT ![i] =
                     [@ EXCEPT !.pc = "finished",
                               !.res = TaskFailed(urls[i], "unsupported format")]]
    /\ UNCHANGED <<inputVars, phase, results, nameVars, titleVars, metaVars>>

\* a collection that keeps the successes only
Collected_dropFailed(rs, res) == IF res.ok THEN Append(rs, res) ELSE rs

\* results.append(res)
Collected(rs, res) == Append(rs, res)

\* app.py lines 96-98 / wechat_extract.py lines 314, 322-324: a finished
\* task's result is appended
Collect(i) ==
    /\ phase = "running"
    /\ task[i].pc = "finished"
    /\ results' = Collected(results, task[i].res)
    /\ task' = [task EXCEPT ![i].pc = "collected"]
    /\ UNCHANGED <<inputVars, phase, fs, nameVars, titleVars, metaVars>>

\* app.py lines 99-103: results.json is written once every task is
\* collected; wechat_extract.py lines 331-333 only print the counts
Finish ==
    /\ phase = "running"
    /\ \A i \in Tasks : task[i].pc = "collected"
    /\ phase' = "done"
    /\ fs' = IF entry = "app"
             THEN (SummaryPath :> [kind |-> "summary", results |-> results]) @@ fs
             ELSE fs
    /\ UNCHANGED <<inputVars, task, results, nameVars, titleVars, metaVars>>

RunIdle ==
    /\ entry = "idle"
    /\ urls = <<>>
    /\ fmt = "md"
    /\ download_images = FALSE
    /\ workers = 0
    /\ web = [u \in ArticleUrls |-> "NotFound"]
    /\ phase = "idle"
    /\ task = <<>>
    /\ results = <<>>
    /\ fs = <<>>

----------------------------------------------------------------------------
(* Specifications *)

vars == <<nameVars, titleVars, metaVars, runVars>>

\* safe_filename alone
InitName == NameInit /\ TitleIdle /\ MetaIdle /\ RunIdle
NextName == Sanitize
SpecName == InitName /\ [][NextName]_vars

\* the title selection of extract_article alone
InitTitle == TitleInit /\ NameIdle /\ MetaIdle /\ RunIdle
NextTitle == DoExtractTitle
SpecTitle == InitTitle /\ [][NextTitle]_vars

\* the author/date selection of extract_article alone
InitMeta == MetaInit /\ NameIdle /\ TitleIdle /\ RunIdle
NextMeta == DoExtractMeta
SpecMeta == InitMeta /\ [][NextMeta]_vars

\* one batch run, from the caller's inputs to the summary
Init == RunInit /\ NameIdle /\ TitleIdle /\ MetaIdle
Next ==
    \/ StartPool
    \/ \E i \in Tasks : Fetch(i)
    \/ \E i \in Tasks : ImageGet(i)
    \/ \E i \in Tasks : ImageWrite(i)
    \/ \E i \in Tasks : Write(i)
    \/ \E i \in Tasks : Collect(i)
    \/ Finish
Spec == Init /\ [][Next]_vars

----------------------------------------------------------------------------
(* Properties *)

Range(f) == {f[i] : i \in DOMAIN f}

\* the tasks whose process_url has returned
Returned == {i \in Tasks : task[i].pc \in {"finished", "collected"}}

FetchOk(u) == Response(web[u]).status = "ok"

ImagePaths == {p \in DOMAIN fs : fs[p].kind = "image"}
ArticlePaths == {p \in DOMAIN fs : fs[p].kind = "article"}

\* C1: once the run has collected its tasks, the results hold exactly one
\* entry per submitted URL (duplicates counted); every URL whose fetch fails
\* has ok = FALSE, a non-empty error and no path; every other URL has
\* ok = TRUE and a path (the format being a supported one), whatever
\* happened to the other tasks; the summary file holds these results.
C1_PartialBatchFailure ==
    phase = "done" =>
        /\ Len(results) = Len(urls)
        /\ \A u \in ArticleUrls :
              Cardinality({k \in 1..Len(results) : results[k].url = u})
                = Cardinality({i \in Tasks : urls[i] = u})
        /\ \A k \in 1..Len(results) :
              LET r == results[k]
              IN  IF ~FetchOk(r.url)
                  THEN /\ ~r.ok
                       /\ "error" \in DOMAIN r /\ r.error /= ""
                       /\ "path" \notin DOMAIN r
                  ELSE fmt \in SupportedFormats =>
                       /\ r.ok
                       /\ "path" \in DOMAIN r /\ r.path.name /= <<>>
                       /\ "error" \notin DOMAIN r
        /\ entry = "app" => /\ SummaryPath \in DOMAIN fs
                            /\ fs[SummaryPath].results = results

\* a finished run of two tasks in a pool of two, one whose fetch failed and
\* one that succeeded
C1_Witness ==
    /\ phase = "done"
    /\ PoolSize = 2 /\ ~Sequential
    /\ Len(results) = 2
    /\ \E j, k \in 1..2 : ~results[j].ok /\ results[k].ok

\* what a task's result says of its outcome: the URL, ok, the error if any
Outcome(r) == [url |-> r.url, ok |-> r.ok,
               error |-> IF "error" \in DOMAIN r THEN r.error ELSE ""]

\* the outcome of a URL as a function of the URL alone
UrlOutcome(u) ==
    [url |-> u,
     ok |-> FetchOk(u) /\ fmt \in SupportedFormats,
     error |-> IF ~FetchOk(u) THEN Response(web[u]).status
               ELSE IF fmt \notin SupportedFormats THEN "unsupported format" ELSE ""]

\* C2: with one worker and with min(N, 8) workers alike, in every
\* interleaving and every order of completion, the set of outcomes of a
\* finished run is the set of the per-URL outcomes, which depends on neither
\* the worker count nor the order.
C2_WorkerCountInvariance ==
    (phase = "done" /\ workers \in {1, 8}) =>
        {Outcome(results[k]) : k \in 1..Len(results)} = {UrlOutcome(u) : u \in Range(urls)}

\* a run with two workers whose results are in the reverse of the order of
\* submission, one task having failed
C2_Witness ==
    /\ phase = "done"
    /\ workers = 8 /\ PoolSize = 2 /\ ~Sequential
    /\ Len(results) = 2
    /\ results[1].url = urls[2] /\ results[2].url = urls[1]
    /\ urls[1] /= urls[2]
    /\ results[1].ok /\ ~results[2].ok

\* C3: for every worker count the caller supplies, the run ends normally,
\* with one result per URL and, in the web front end, the summary written.
C3_RunNeverFails ==
    /\ phase /= "crashed"
    /\ phase = "done" =>
          /\ Len(results) = Len(urls)
          /\ entry = "app" => SummaryPath \in DOMAIN fs

\* the localized <img> elements of all tasks: <<task, position>>
Localized ==
    {tk \in UNION {{<<i, k>> : k \in 1..Len(task[i].item.content)} : i \in Tasks} :
        task[tk[1]].item.content[tk[2]].local /= <<>>}

ElemOf(tk) == task[tk[1]].item.content[tk[2]]

\* the file a local reference names
LocalPath(local) == Path("images", SubSeq(local, 8, Len(local)))

\* C4: whether the saves are sequential or concurrent, the content of no
\* saved image is lost or overwritten: the file every save returned still
\* exists and holds the image that save wrote.
C4_NoImageOverwritten ==
    \A a \in Localized :
        /\ LocalPath(ElemOf(a).local) \in DOMAIN fs
        /\ fs[LocalPath(ElemOf(a).local)] = ImageFile(ElemOf(a).src)

\* C5: after the run, every successful result's path holds that task's own
\* article, and the output directory holds one rendered file per
\* successfully processed URL.
C5_DistinctArticleFiles ==
    phase = "done" =>
        /\ \A k \in 1..Len(results) :
              results[k].ok => /\ results[k].path \in ArticlePaths
                               /\ fs[results[k].path].item.url = results[k].url
        /\ Cardinality(ArticlePaths)
             = Cardinality({results[k].url : k \in {j \in 1..Len(results) : results[j].ok}})

\* C6: with an unsupported format a task fails before it downloads an image
\* or writes a file, and it alone fails, with ok = FALSE and an error.
C6_UnsupportedFormatFailsFirst ==
    fmt \notin SupportedFormats =>
        /\ ImagePaths = {} /\ ArticlePaths = {}
        /\ \A i \in Returned : ~task[i].res.ok /\ task[i].res.error /= ""

\* C7: with image download on, a supported format and a fetched article, a
\* task returns ok = TRUE whichever of its image downloads fail; every <img>
\* whose download failed keeps its remote URL as src, and every <img> whose
\* download succeeded has as src the relative path, under images/, of a file
\* named after the URL, which exists.
C7_ImageFailureNotFatal ==
    \A i \in Tasks :
        (/\ task[i].pc = "finished"
         /\ download_images /\ FetchOk(urls[i]) /\ fmt \in SupportedFormats) =>
            /\ task[i].res.ok
            /\ \A k \in 1..Len(task[i].item.content) :
                  LET e == task[i].item.content[k]
                      want == splitext(ImageFileName(UrlBasename(e.src), ImgCtype(e.src)))
                      got == splitext(SubSeq(e.local, 8, Len(e.local)))
                  IN  /\ (e.src = NoUrl \/ ImgStatus(e.src) /= "ok") => e.local = <<>>
                      /\ (e.src /= NoUrl /\ ImgStatus(e.src) = "ok") =>
                            /\ Len(e.local) > 7
                            /\ SubSeq(e.local, 1, 7) = <<"i", "m", "a", "g", "e", "s", "/">>
                            /\ LocalPath(e.local) \in ImagePaths
                            /\ got[2] = want[2]
                            /\ Len(got[1]) >= Len(want[1])
                            /\ SubSeq(got[1], 1, Len(want[1])) = want[1]

\* a task that ended ok with one image localized and another, whose download
\* failed, left remote
C7_Witness ==
    \E i \in Returned :
        /\ download_images /\ task[i].res.ok
        /\ \E j, k \in 1..Len(task[i].item.content) :
              /\ task[i].item.content[j].local /= <<>>
              /\ task[i].item.content[k].src /= NoUrl
              /\ ImgStatus(task[i].item.content[k].src) /= "ok"
              /\ task[i].item.content[k].local = <<>>

\* the texts of a document, trimmed (<<>> where the element is missing)
TrimmedOrEmpty(v) == IF v = None \/ v = Absent THEN <<>> ELSE Strip(v)

\* C8: the title is the first non-empty (once trimmed) of the title-zone
\* heading, the og:title meta value and the <title> text, in this order, and
\* the empty text, never None, when there is none.
C8_TitlePrecedence ==
    titlePc = "done" =>
        LET H == TrimmedOrEmpty(doc.h2)
            O == TrimmedOrEmpty(IF doc.ogProp /= Absent THEN doc.ogProp ELSE doc.ogName)
            T == TrimmedOrEmpty(doc.ttl)
        IN  /\ title /= None
            /\ H /= <<>> => title = H
            /\ (H = <<>> /\ O /= <<>>) => title = O
            /\ (H = <<>> /\ O = <<>>) => title = T

\* a heading with text wins over a different og:title and a different <title>
C8_Witness ==
    /\ titlePc = "done"
    /\ TrimmedOrEmpty(doc.h2) /= <<>>
    /\ TrimmedOrEmpty(doc.ogProp) \notin {<<>>, TrimmedOrEmpty(doc.h2)}
    /\ TrimmedOrEmpty(doc.ttl) \notin {<<>>, TrimmedOrEmpty(doc.h2)}
    /\ doc.h2 /= Strip(doc.h2)
    /\ title = Strip(doc.h2)

\* C9: a sanitized name holds none of \ / : * ? " < > |, is at most 120
\* characters long and is never empty.
C9_SafeFilename ==
    namePc = "done" =>
        /\ \A i \in 1..Len(nameOut) : nameOut[i] \notin HostileChars
        /\ Len(nameOut) <= MaxNameLen
        /\ nameOut /= <<>>

\* a name over the cap with a hostile character, cut and then right-trimmed
C9_Witness ==
    /\ namePc = "done"
    /\ Len(nameIn) > MaxNameLen
    /\ \E i \in 1..Len(nameIn) : nameIn[i] \in HostileChars
    /\ Len(nameOut) < MaxNameLen
    /\ nameOut /= GenericName

\* the candidate texts of the meta zone, in document order
Candidates ==
    LET spans == SelectSeq(meta_zone.elems, IsSpanOrA)
        texts == [i \in 1..Len(spans) |-> get_text(spans[i].txt)]
        NonEmpty(t) == t /= <<>>
    IN  SelectSeq(texts, NonEmpty)

FirstOr(s) == IF s = <<>> THEN <<>> ELSE Head(s)

NotDateLike(t) == ~IsDateLike(t)

\* C10: the date is the first candidate text of the meta zone that matches
\* the date-like pattern and the author the first that does not, so a
\* non-empty date matches the pattern and a non-empty author does not.
C10_AuthorDateClassified ==
    metaPc = "done" =>
        /\ date = FirstOr(SelectSeq(Candidates, IsDateLike))
        /\ author = FirstOr(SelectSeq(Candidates, NotDateLike))
        /\ date /= <<>> => IsDateLike(date)
        /\ author /= <<>> => ~IsDateLike(author)

====
